---- MODULE Spec2Model ----
(***************************************************************************)
(* Model of moodle_dl/notifications/ntfy/ntfy_formatter.py: the ntfy       *)
(* message formatter of Moodle-DL.                                         *)
(*                                                                         *)
(* A Python str is a sequence of pieces. A piece is a one-character string *)
(* wherever the code looks at characters (digits, separators, spaces,      *)
(* newlines) and a whole word where it only copies text. The emoji of the  *)
(* source are written as their code points ("U+1F4DA").                    *)
(***************************************************************************)
EXTENDS Integers, Sequences, FiniteSets, TLC

VARIABLES
    pc,           \* position of create_full_moodle_diff_messages
    changes,      \* the courses read from `changes` so far, with the files read so far
    course_name,  \* local course_name
    map,          \* aggregator.map of the current FileAggregatorByMod
    mi,           \* position of the loop over aggregator.map.items()
    messages,     \* local messages
    result,       \* what the caller of create_full_moodle_diff_messages receives
    defaults,     \* the default list object bound to mod_categories at definition time
    added,        \* the files passed to FileAggregatorByMod.add, in call order
    call          \* the last call of a formatting function: name, arguments, result

vars == <<pc, changes, course_name, map, mi, messages, result, defaults, added, call>>

----------------------------------------------------------------------------
(* Bounds of the model *)

\* courses in one batch
MaxCourses == 2
\* files in one batch, over all its courses
MaxFiles == 2
\* calls of FileAggregatorByMod.add on one aggregator
MaxAdds == 3
\* files handed to one combined message
MaxBullets == 2

----------------------------------------------------------------------------
(* Python values *)

None == "None"
Whitespace == {" ", "\n", "\t"}
Digits == <<"0", "1", "2", "3", "4", "5", "6", "7", "8", "9">>
DigitSet == {Digits[i] : i \in 1..10}
DigitVal(c) == (CHOOSE i \in 1..10 : Digits[i] = c) - 1

Pending == [err |-> "pending", val |-> <<>>]
Ok(v) == [err |-> "none", val |-> v]
Raise(e) == [err |-> e, val |-> <<>>]

RECURSIVE Concat(_)
Concat(ss) == IF ss = <<>> THEN <<>> ELSE Head(ss) \o Concat(Tail(ss))

\* index of the first piece of s that is c, 0 when there is none
Find(s, c) ==
    IF \E i \in 1..Len(s) : s[i] = c
    THEN CHOOSE i \in 1..Len(s) : s[i] = c /\ \A j \in 1..(i - 1) : s[j] # c
    ELSE 0

\* index of the last piece of s that is c, 0 when there is none
RFind(s, c) ==
    IF \E i \in 1..Len(s) : s[i] = c
    THEN CHOOSE i \in 1..Len(s) : s[i] = c /\ \A j \in (i + 1)..Len(s) : s[j] # c
    ELSE 0

\* str.split(sep, maxsplit) for a one-character sep
RECURSIVE split(_, _, _)
split(s, sep, maxsplit) ==
    LET i == Find(s, sep) IN
    IF maxsplit = 0 \/ i = 0 THEN <<s>>
    ELSE <<SubSeq(s, 1, i - 1)>> \o split(SubSeq(s, i + 1, Len(s)), sep, maxsplit - 1)

\* str.rstrip()
RECURSIVE rstrip(_)
rstrip(s) ==
    IF s # <<>> /\ s[Len(s)] \in Whitespace THEN rstrip(SubSeq(s, 1, Len(s) - 1)) ELSE s

\* str.replace(old, new) for one-character old and new
replace(s, old, new) == [i \in 1..Len(s) |-> IF s[i] = old THEN new ELSE s[i]]

\* str(n) and a zero-padded number of exactly w digits (n < 10^w)
RECURSIVE str(_)
str(n) == IF n < 10 THEN <<Digits[n + 1]>> ELSE str(n \div 10) \o <<Digits[(n % 10) + 1]>>

RECURSIVE Pad(_, _)
Pad(n, w) == IF w = 0 THEN <<>> ELSE Pad(n \div 10, w - 1) \o <<Digits[(n % 10) + 1]>>

RECURSIVE int(_)
int(s) == IF s = <<>> THEN 0 ELSE 10 * int(SubSeq(s, 1, Len(s) - 1)) + DigitVal(s[Len(s)])

----------------------------------------------------------------------------
(* datetime.strptime(iso_str, "%Y.%m.%d %H:%M") and strftime *)

\* the regular expressions _strptime compiles the directives to
RE_Y(x) == Len(x) = 4 /\ \A i \in 1..4 : x[i] \in DigitSet
RE_m(x) ==
    \/ Len(x) = 2 /\ x[1] = "1" /\ x[2] \in {"0", "1", "2"}
    \/ Len(x) = 2 /\ x[1] = "0" /\ x[2] \in DigitSet \ {"0"}
    \/ Len(x) = 1 /\ x[1] \in DigitSet \ {"0"}
RE_d(x) ==
    \/ Len(x) = 2 /\ x[1] = "3" /\ x[2] \in {"0", "1"}
    \/ Len(x) = 2 /\ x[1] \in {"1", "2"} /\ x[2] \in DigitSet
    \/ Len(x) = 2 /\ x[1] = "0" /\ x[2] \in DigitSet \ {"0"}
    \/ Len(x) = 1 /\ x[1] \in DigitSet \ {"0"}
    \/ Len(x) = 2 /\ x[1] = " " /\ x[2] \in DigitSet \ {"0"}
RE_H(x) ==
    \/ Len(x) = 2 /\ x[1] = "2" /\ x[2] \in {"0", "1", "2", "3"}
    \/ Len(x) = 2 /\ x[1] \in {"0", "1"} /\ x[2] \in DigitSet
    \/ Len(x) = 1 /\ x[1] \in DigitSet
RE_M(x) ==
    \/ Len(x) = 2 /\ x[1] \in {"0", "1", "2", "3", "4", "5"} /\ x[2] \in DigitSet
    \/ Len(x) = 1 /\ x[1] \in DigitSet

\* the ways the whole of s matches  Y "." m "." d \s+ H ":" M
StrptimeMatches(s) ==
    { f \in [m : 1..2, d : 1..2, H : 1..2, M : 1..2] :
        LET n  == Len(s)
            m0 == 6
            d0 == m0 + f.m + 1
            w0 == d0 + f.d
            M0 == n - f.M + 1
            H0 == M0 - 1 - f.H
        IN  /\ H0 > w0
            /\ RE_Y(SubSeq(s, 1, 4))
            /\ s[5] = "."
            /\ RE_m(SubSeq(s, m0, m0 + f.m - 1))
            /\ s[d0 - 1] = "."
            /\ RE_d(SubSeq(s, d0, d0 + f.d - 1))
            /\ \A i \in w0..(H0 - 1) : s[i] \in Whitespace
            /\ RE_H(SubSeq(s, H0, H0 + f.H - 1))
            /\ s[M0 - 1] = ":"
            /\ RE_M(SubSeq(s, M0, n)) }

IsLeap(y) == (y % 4 = 0 /\ y % 100 # 0) \/ y % 400 = 0
DaysInMonth(y, m) ==
    IF m = 2 THEN (IF IsLeap(y) THEN 29 ELSE 28)
    ELSE IF m \in {4, 6, 9, 11} THEN 30 ELSE 31

\* a datetime value, or ValueError
strptime(s) ==
    IF StrptimeMatches(s) = {} THEN Raise("ValueError")
    ELSE
        LET f  == CHOOSE g \in StrptimeMatches(s) : TRUE
            m0 == 6
            d0 == m0 + f.m + 1
            M0 == Len(s) - f.M + 1
            H0 == M0 - 1 - f.H
            Y  == int(SubSeq(s, 1, 4))
            mo == int(SubSeq(s, m0, m0 + f.m - 1))
            dd == int(SubSeq(s, d0 + (IF s[d0] = " " THEN 1 ELSE 0), d0 + f.d - 1))
            HH == int(SubSeq(s, H0, H0 + f.H - 1))
            MM == int(SubSeq(s, M0, Len(s)))
        IN  IF Y < 1 \/ dd > DaysInMonth(Y, mo) THEN Raise("ValueError")
            ELSE Ok([year |-> Y, month |-> mo, day |-> dd, hour |-> HH, minute |-> MM])

\* strftime with the 24-hour %H in place of the 12-hour %I
strftime_24h(t) ==
    LET p == IF t.hour < 12 THEN "AM" ELSE "PM"
    IN  Pad(t.hour, 2) \o <<":">> \o Pad(t.minute, 2) \o <<" ", p, " ">>
        \o Pad(t.day, 2) \o <<".">> \o Pad(t.month, 2) \o <<".">> \o Pad(t.year % 100, 2)

\* date_obj.strftime("%I:%M %p %d.%m.%y")
strftime(t) ==
    LET I == IF t.hour % 12 = 0 THEN 12 ELSE t.hour % 12
        p == IF t.hour < 12 THEN "AM" ELSE "PM"
    IN  Pad(I, 2) \o <<":">> \o Pad(t.minute, 2) \o <<" ", p, " ">>
        \o Pad(t.day, 2) \o <<".">> \o Pad(t.month, 2) \o <<".">> \o Pad(t.year % 100, 2)

iso_to_time_dmy(date_str, time_str) ==
    LET time_str2 == replace(time_str, "_", ":")
        iso_str   == date_str \o <<" ">> \o time_str2
        date_obj  == strptime(iso_str)
    IN  IF date_obj.err # "none" THEN date_obj ELSE Ok(strftime(date_obj.val))

----------------------------------------------------------------------------
(* The formatting functions *)

EMOJI_BLUE_BOOK == "U+1F4D8"
EMOJI_BOOKS     == "U+1F4DA"
EMOJI_DIVIDERS  == "U+1F5C2"
EMOJI_MEMO      == "U+1F4DD"
EMOJI_CLOCK     == "U+23F0"
EMOJI_ENVELOPE  == "U+2709"
EMOJI_COMPUTER  == "U+1F4BB"
BULLET          == "U+25CF"

NtfyMessage(title, text, source_url) ==
    [title |-> title, text |-> text, source_url |-> source_url]

\* s.split(" ", 1)[1] cut at the last space instead of the first
remove_until_last_space(s) ==
    IF Find(s, " ") # 0 THEN SubSeq(s, RFind(s, " ") + 1, Len(s)) ELSE s

remove_until_first_space(s) ==
    IF Find(s, " ") # 0 THEN split(s, " ", 1)[2] ELSE s

get_course_name_str(name) == <<EMOJI_BLUE_BOOK, " ">> \o name

\* the elif chain with deleted tested before modified
get_change_type_deleted_first(file) ==
    IF file.deleted THEN "deleted"
    ELSE IF file.modified THEN "modified"
    ELSE IF file.moved THEN "moved"
    ELSE "new"

get_change_type(file) ==
    IF file.modified THEN "modified"
    ELSE IF file.deleted THEN "deleted"
    ELSE IF file.moved THEN "moved"
    ELSE "new"

get_status_str(file) ==
    LET status == get_change_type(file) IN
    IF status # "new" THEN <<status>> ELSE <<>>

get_content_type(file) ==
    IF file.content_type = "assign_file" THEN <<"Assigment", " ", "File">>
    ELSE IF file.content_type = "submission_file" THEN <<"Submission", " ", "File">>
    ELSE <<file.content_type>>

make_generic_message(file, name, emoji) ==
    LET title == (IF emoji # <<>> THEN emoji \o <<" ">> ELSE <<>>) \o file.content_filename
    IN  NtfyMessage(title, get_course_name_str(name), file.content_fileurl)

\* the body of the loop over files: one bullet line appended to text
BulletLine(file, add_content_type) ==
    LET status == get_status_str(file) IN
    <<BULLET, " ">> \o file.content_filename
    \o (IF add_content_type THEN <<" ", "(">> \o get_content_type(file) \o <<")">> ELSE <<>>)
    \o (IF status # <<>> THEN <<" ", "(">> \o status \o <<")">> ELSE <<>>)
    \o <<"\n">>

RECURSIVE BulletLines(_, _)
BulletLines(files, add_content_type) ==
    IF files = <<>> THEN <<>>
    ELSE BulletLine(Head(files), add_content_type) \o BulletLines(Tail(files), add_content_type)

make_generic_combined_message(files, name, keyword, emoji, add_content_type) ==
    LET title == (IF emoji # <<>> THEN emoji \o <<" ">> ELSE <<>>)
                 \o str(Len(files)) \o <<" ">> \o keyword \o <<" ", "updates">>
        text  == get_course_name_str(name) \o <<"\n">> \o BulletLines(files, add_content_type)
    IN  NtfyMessage(title, rstrip(text), None)

\* the resource digest asking for the content type as the assignment digest does
make_resource_combined_message_typed(files, name) ==
    make_generic_combined_message(files, name, <<"file">>, <<EMOJI_BOOKS>>, TRUE)

make_resource_combined_message(files, name) ==
    make_generic_combined_message(files, name, <<"file">>, <<EMOJI_BOOKS>>, FALSE)

make_misc_combined_message(files, name) ==
    make_generic_combined_message(files, name, <<"misc">>, <<EMOJI_DIVIDERS>>, FALSE)

make_assign_combined_message(files, name) ==
    make_generic_combined_message(files, name, <<"assignment", " ", "file">>, <<EMOJI_MEMO>>, TRUE)

make_quiz_message(file, name) == make_generic_message(file, name, <<EMOJI_COMPUTER>>)

\* a calendar rendering that answers a bad file name with a default message
make_calendar_message_default(file, name) ==
    LET parts == split(file.content_filename, " ", 2)
        time_date_str == IF Len(parts) = 3 THEN iso_to_time_dmy(parts[1], parts[2])
                         ELSE Raise("ValueError")
        title == IF time_date_str.err # "none" THEN <<EMOJI_CLOCK, " ">>
                 ELSE <<EMOJI_CLOCK, " ">> \o parts[3] \o <<" ", "@", " ">> \o time_date_str.val
    IN  Ok(NtfyMessage(title, get_course_name_str(name), file.content_fileurl))

\* a message, or the ValueError of the unpacking or of strptime
make_calendar_message(file, name) ==
    LET parts == split(file.content_filename, " ", 2) IN
    IF Len(parts) # 3 THEN Raise("ValueError")
    ELSE
        LET time_date_str == iso_to_time_dmy(parts[1], parts[2]) IN
        IF time_date_str.err # "none" THEN time_date_str
        ELSE Ok(NtfyMessage(<<EMOJI_CLOCK, " ">> \o parts[3] \o <<" ", "@", " ">> \o time_date_str.val,
                            get_course_name_str(name), file.content_fileurl))

make_forum_message(file, name) ==
    NtfyMessage(<<EMOJI_ENVELOPE, " ">> \o remove_until_first_space(file.content_filepath),
                get_course_name_str(name), file.content_fileurl)

----------------------------------------------------------------------------
(* FileAggregatorByMod *)

\* the default of mod_categories in alphabetical order
DefaultCategories_sorted == <<"assign", "calendar", "folder", "forum", "quiz", "resource">>

\* the default of mod_categories with a category no branch renders
DefaultCategories_with_label ==
    <<"assign", "calendar", "folder", "forum", "resource", "quiz", "label">>

DefaultCategories == <<"assign", "calendar", "folder", "forum", "resource", "quiz">>

Range(s) == {s[i] : i \in 1..Len(s)}

\* the keys of a dict built from the key sequence ks: first occurrences, in order
RECURSIVE DictKeys(_)
DictKeys(ks) ==
    IF ks = <<>> THEN <<>>
    ELSE LET front == DictKeys(SubSeq(ks, 1, Len(ks) - 1)) IN
         IF ks[Len(ks)] \in Range(front) THEN front ELSE Append(front, ks[Len(ks)])

\* self.map = {key: [] for key in mod_categories + ["misc"]}
FileAggregatorByMod_init(mod_categories) ==
    LET ks == DictKeys(mod_categories \o <<"misc">>) IN
    [keys |-> ks, vals |-> [k \in Range(ks) |-> <<>>]]

\* add putting the file at the front of its list
add_front(m, file) ==
    IF file.module_modname \in DOMAIN m.vals
    THEN [m EXCEPT !.vals[file.module_modname] = <<file>> \o @]
    ELSE [m EXCEPT !.vals["misc"] = <<file>> \o @]

\* add without the else branch
add_matched_only(m, file) ==
    IF file.module_modname \in DOMAIN m.vals
    THEN [m EXCEPT !.vals[file.module_modname] = Append(@, file)]
    ELSE m

add(m, file) ==
    IF file.module_modname \in DOMAIN m.vals
    THEN [m EXCEPT !.vals[file.module_modname] = Append(@, file)]
    ELSE [m EXCEPT !.vals["misc"] = Append(@, file)]

----------------------------------------------------------------------------
(* Inputs *)

File(mod, filename, filepath, url, type, modified, deleted, moved) ==
    [module_modname |-> mod, content_filename |-> filename, content_filepath |-> filepath,
     content_fileurl |-> url, content_type |-> type,
     modified |-> modified, deleted |-> deleted, moved |-> moved]

SeqsUpTo(S, n) == UNION {[1..k -> S] : k \in 0..n}

CourseNames == {<<"Algebra", " ", "I">>, <<"Physics">>}

\* date tokens: well-formed ones of real and unreal days, then malformed ones
DateTokens ==
    {Pad(y, 4) \o <<".">> \o Pad(m, 2) \o <<".">> \o Pad(d, 2) :
        y \in {0, 1, 1900, 2000, 2024}, m \in {1, 2, 4, 9, 12}, d \in {1, 28, 29, 30, 31}}
    \cup {<<"2", "0", "2", "4", ".", "9", ".", "2", "3">>,
          <<"2", "0", "2", "4", ".", "0", "9">>,
          <<"2", "4", ".", "0", "9", ".", "2", "3">>,
          <<"2", "0", "2", "4", "-", "0", "9", "-", "2", "3">>,
          <<"2", "0", "2", "4", ".", "1", "3", ".", "0", "1">>,
          <<"2", "0", "2", "4", ".", "0", "0", ".", "1", "0">>,
          <<"2", "0", "2", "4", ".", "0", "9", ".", "0", "0">>,
          <<"t", "o", "d", "a", "y">>}

TimeTokens ==
    {Pad(h, 2) \o <<"_">> \o Pad(m, 2) : h \in 0..23, m \in {0, 5, 35, 59}}
    \cup {<<"1", "4", ":", "3", "5">>,
          <<"9", "_", "0", "5">>,
          <<"1", "4", "_", "5">>,
          <<"2", "4", "_", "0", "0">>,
          <<"1", "4", "_", "6", "0">>,
          <<"1", "4", "3", "5">>,
          <<"1", "4", "_", "3", "5", "_", "0", "0">>,
          <<>>}

\* files for the combined messages: every combination of the three flags
CombinedFiles(mod) ==
    {File(mod, name, <<"/", mod>>, None, type, mo, de, mv) :
        name \in {<<"HW1.pdf">>, <<"Lecture", " ", "Notes", " ">>},
        type \in {"assign_file", "pdf"},
        mo \in BOOLEAN, de \in BOOLEAN, mv \in BOOLEAN}

ForumFiles ==
    {File("forum", <<"post">>, path, url, "html", FALSE, FALSE, FALSE) :
        path \in {<<"/Forum", " ", "Topic", " ", "A">>, <<"Announcements">>, <<" ", "x">>,
                  <<"a", " ", " ", "b">>, <<"a", " ">>, <<>>},
        url \in {None, "https://moodle/f1"}}

----------------------------------------------------------------------------
(* SpecFn: the formatting functions applied to the inputs above *)

Call(fn, args, ret) == [fn |-> fn, args |-> args, ret |-> ret]

NoAggregator == [keys |-> <<>>, vals |-> <<>>]

\* create_full_moodle_diff_messages is not running
NotBuilding ==
    /\ pc = "unused" /\ changes = <<>> /\ course_name = <<>> /\ mi = 0
    /\ messages = <<>> /\ result = Pending /\ defaults = DefaultCategories

InitFn ==
    /\ NotBuilding
    /\ map = NoAggregator
    /\ added = <<>>
    /\ call = Call("none", <<>>, <<>>)

Builder == <<pc, changes, course_name, map, mi, messages, result, defaults, added>>

Call_iso_to_time_dmy ==
    /\ call.fn = "none"
    /\ \E d \in DateTokens, t \in TimeTokens :
        /\ call' = Call("iso_to_time_dmy", <<d, t>>, iso_to_time_dmy(d, t))
        /\ UNCHANGED Builder

Call_make_forum_message ==
    /\ call.fn = "none"
    /\ \E f \in ForumFiles, n \in CourseNames :
        /\ call' = Call("make_forum_message", <<f, n>>, make_forum_message(f, n))
        /\ UNCHANGED Builder

Call_make_resource_combined_message ==
    /\ call.fn = "none"
    /\ \E mod \in {"resource", "folder"} :
        \E fs \in SeqsUpTo(CombinedFiles(mod), MaxBullets), n \in {<<"Algebra", " ", "I">>} :
            /\ call' = Call("make_resource_combined_message", <<fs, n>>,
                            make_resource_combined_message(fs, n))
            /\ UNCHANGED Builder

Call_make_assign_combined_message ==
    /\ call.fn = "none"
    /\ \E fs \in SeqsUpTo(CombinedFiles("assign"), MaxBullets), n \in {<<"Algebra", " ", "I">>} :
        /\ call' = Call("make_assign_combined_message", <<fs, n>>,
                        make_assign_combined_message(fs, n))
        /\ UNCHANGED Builder

Call_make_misc_combined_message ==
    /\ call.fn = "none"
    /\ \E fs \in SeqsUpTo(CombinedFiles("label"), MaxBullets), n \in {<<"Algebra", " ", "I">>} :
        /\ call' = Call("make_generic_combined_message", <<fs, n>>,
                        make_misc_combined_message(fs, n))
        /\ UNCHANGED Builder

\* the caller takes the result; the next call starts from there
Return_call ==
    /\ call.fn # "none"
    /\ call' = Call("none", <<>>, <<>>)
    /\ UNCHANGED Builder

NextFn ==
    \/ Return_call
    \/ Call_iso_to_time_dmy
    \/ Call_make_forum_message
    \/ Call_make_resource_combined_message
    \/ Call_make_assign_combined_message
    \/ Call_make_misc_combined_message

SpecFn == InitFn /\ [][NextFn]_vars

----------------------------------------------------------------------------
(* SpecAgg: one FileAggregatorByMod, built for a category list, and its add *)

CategoryLists ==
    {DefaultCategories, <<"assign", "misc">>, <<"misc", "forum">>, <<>>,
     <<"forum", "forum", "assign">>, <<"label">>}

AggFiles ==
    {File(mod, name, <<"/", mod>>, None, "html", FALSE, FALSE, FALSE) :
        mod \in {"assign", "forum", "misc", "label", "Assign"},
        name \in {<<"a">>, <<"b">>}}

InitAgg ==
    /\ NotBuilding
    /\ added = <<>>
    /\ \E cats \in CategoryLists :
        /\ map = FileAggregatorByMod_init(cats)
        /\ call = Call("FileAggregatorByMod", <<cats>>, <<>>)

Agg_add ==
    /\ Len(added) < MaxAdds
    /\ \E f \in AggFiles :
        /\ map' = add(map, f)
        /\ added' = Append(added, f)
    /\ UNCHANGED <<pc, changes, course_name, mi, messages, result, defaults, call>>

\* the aggregator is dropped and another one built
Agg_init ==
    /\ added # <<>>
    /\ \E cats \in CategoryLists :
        /\ map' = FileAggregatorByMod_init(cats)
        /\ call' = Call("FileAggregatorByMod", <<cats>>, <<>>)
    /\ added' = <<>>
    /\ UNCHANGED <<pc, changes, course_name, mi, messages, result, defaults>>

NextAgg == Agg_add \/ Agg_init

SpecAgg == InitAgg /\ [][NextAgg]_vars

----------------------------------------------------------------------------
(* Spec: create_full_moodle_diff_messages.  The courses of `changes` and the     *)
(* files of a course are read one by one, and each is chosen when it is read.   *)

Str_2024_09_23 == <<"2", "0", "2", "4", ".", "0", "9", ".", "2", "3">>

BuilderFiles ==
    {File("assign", <<"HW1.pdf">>, <<"/", "HW1">>, "https://moodle/a1", "assign_file",
          TRUE, FALSE, FALSE),
     File("calendar", Str_2024_09_23 \o <<" ", "1", "4", "_", "3", "5", " ", "Midterm", " ", "Exam">>,
          <<"/", "cal">>, "https://moodle/c1", "calendar", FALSE, FALSE, FALSE),
     File("calendar", <<"2", "0", "2", "4", ".", "9", ".", "2", "3", " ", "9", ":", "0", "5", " ", "Lab">>,
          <<"/", "cal">>, "https://moodle/c2", "calendar", FALSE, FALSE, FALSE),
     File("calendar", <<"onlyonetoken">>,
          <<"/", "cal">>, "https://moodle/c3", "calendar", FALSE, FALSE, FALSE),
     File("calendar", Str_2024_09_23 \o <<" ", "2", "4", "_", "0", "0", " ", "Party">>,
          <<"/", "cal">>, "https://moodle/c4", "calendar", FALSE, FALSE, FALSE),
     File("calendar", <<"2", "0", "2", "4", "-", "0", "9", "-", "2", "3", " ", "1", "4", "_", "3", "5", " ", "Trip">>,
          <<"/", "cal">>, "https://moodle/c5", "calendar", FALSE, FALSE, FALSE),
     File("calendar", <<"2", "0", "2", "4", ".", "0", "2", ".", "3", "0", " ", "1", "0", "_", "0", "0", " ", "Leap">>,
          <<"/", "cal">>, "https://moodle/c6", "calendar", FALSE, FALSE, FALSE),
     File("calendar", Str_2024_09_23 \o <<" ", "1", "4", "_", "3", "5">>,
          <<"/", "cal">>, "https://moodle/c7", "calendar", FALSE, FALSE, FALSE),
     File("folder", <<"Slides">>, <<"/", "Slides">>, None, "pdf", FALSE, FALSE, TRUE),
     File("forum", <<"post1">>, <<"/Forum", " ", "Topic", " ", "A">>, "https://moodle/f1", "html",
          FALSE, FALSE, FALSE),
     File("forum", <<"post2">>, <<"Announcements">>, "https://moodle/f2", "html",
          FALSE, FALSE, FALSE),
     File("resource", <<"Syllabus.pdf">>, <<"/", "Syllabus">>, None, "pdf", FALSE, FALSE, FALSE),
     File("quiz", <<"Quiz", " ", "1">>, <<"/", "Quiz">>, "https://moodle/q1", "html",
          FALSE, FALSE, FALSE),
     File("label", <<"Welcome">>, <<"/", "Welcome">>, None, "description", FALSE, TRUE, FALSE)}

\* the names of the courses of a batch, by position and in turn: no override, an
\* override, an empty override. An optional value is <<>> for None, <<v>> for v.
Courses ==
    <<[overwrite_name_with |-> <<>>, fullname |-> <<"Algebra", " ", "I">>],
      [overwrite_name_with |-> << <<"Physics">> >>, fullname |-> <<"Physics", " ", "101">>],
      [overwrite_name_with |-> << <<>> >>, fullname |-> <<"Chemistry">>]>>

\* course.overwrite_name_with or course.fullname
NameOf(course) ==
    IF course.overwrite_name_with # <<>> /\ course.overwrite_name_with[1] # <<>>
    THEN course.overwrite_name_with[1]
    ELSE course.fullname

\* [make_forum_message(file, course_name) for file in files]
ForumMessages(files, name) == [i \in 1..Len(files) |-> make_forum_message(files[i], name)]

\* [make_quiz_message(file, course_name) for file in files]
QuizMessages(files, name) == [i \in 1..Len(files) |-> make_quiz_message(files[i], name)]

\* [make_calendar_message(file, course_name) for file in files]: the messages, or
\* the error of the first file that raises
RECURSIVE CalendarMessages(_, _)
CalendarMessages(files, name) ==
    IF files = <<>> THEN Ok(<<>>)
    ELSE LET first == make_calendar_message(Head(files), name) IN
         IF first.err # "none" THEN first
         ELSE LET rest == CalendarMessages(Tail(files), name) IN
              IF rest.err # "none" THEN rest ELSE Ok(<<first.val>> \o rest.val)

\* the if/elif chain on mod for a non-empty list: the messages to add, or an error
Rendered(mod, files, name) ==
    IF mod = "assign" THEN Ok(<<make_assign_combined_message(files, name)>>)
    ELSE IF mod = "calendar" THEN CalendarMessages(files, name)
    ELSE IF mod = "forum" THEN Ok(ForumMessages(files, name))
    ELSE IF mod \in {"folder", "resource"} THEN Ok(<<make_resource_combined_message(files, name)>>)
    ELSE IF mod = "quiz" THEN Ok(QuizMessages(files, name))
    ELSE IF mod = "misc" THEN Ok(<<make_misc_combined_message(files, name)>>)
    ELSE Raise("AssertionError")

\* an aggregator made once and kept for the next course
CourseAggregator_shared(previous, mod_categories) ==
    IF previous = NoAggregator THEN FileAggregatorByMod_init(mod_categories) ELSE previous

\* aggregator = FileAggregatorByMod(): whatever the previous one held is gone
CourseAggregator(previous, mod_categories) == FileAggregatorByMod_init(mod_categories)

TotalFiles == Len(Concat([i \in 1..Len(changes) |-> changes[i].files]))

Init ==
    /\ pc = "loop"
    /\ changes = <<>>
    /\ course_name = <<>>
    /\ map = NoAggregator
    /\ mi = 0
    /\ messages = <<>>
    /\ result = Pending
    /\ defaults = DefaultCategories
    /\ added = <<>>
    /\ call = Call("none", <<>>, <<>>)

\* for course in changes: the next course, its name and its aggregator
NextCourse ==
    /\ pc = "loop"
    /\ Len(changes) < MaxCourses
    /\ LET c == Courses[(Len(changes) % Len(Courses)) + 1] IN
        /\ changes' = Append(changes, [overwrite_name_with |-> c.overwrite_name_with,
                                       fullname |-> c.fullname, files |-> <<>>])
        /\ course_name' = NameOf(c)
    /\ map' = CourseAggregator(map, defaults)
    /\ mi' = 1
    /\ pc' = "add"
    /\ UNCHANGED <<messages, result, defaults, added, call>>

\* for file in course.files: aggregator.add(file)
AddFile ==
    /\ pc = "add"
    /\ TotalFiles < MaxFiles
    /\ \E f \in BuilderFiles :
        /\ changes' = [changes EXCEPT ![Len(changes)].files = Append(@, f)]
        /\ map' = add(map, f)
    /\ UNCHANGED <<pc, course_name, mi, messages, result, defaults, added, call>>

Dispatching == pc \in {"add", "items"}
Mod == map.keys[mi]
Bucket == map.vals[Mod]

Advance ==
    /\ IF mi = Len(map.keys) THEN pc' = "loop" /\ mi' = 0 ELSE pc' = "items" /\ mi' = mi + 1
    /\ UNCHANGED <<changes, course_name, map, result, defaults, added, call>>

\* for mod, files in aggregator.map.items(): if not files: continue
SkipEmpty ==
    /\ Dispatching
    /\ Bucket = <<>>
    /\ messages' = messages
    /\ Advance

\* a branch of the chain appends or extends messages
RenderBucket ==
    /\ Dispatching
    /\ Bucket # <<>>
    /\ Rendered(Mod, Bucket, course_name).err = "none"
    /\ messages' = messages \o Rendered(Mod, Bucket, course_name).val
    /\ Advance

\* a branch of the chain raises; nothing catches it
RaiseFromBucket ==
    /\ Dispatching
    /\ Bucket # <<>>
    /\ Rendered(Mod, Bucket, course_name).err # "none"
    /\ pc' = "raised"
    /\ result' = Raise(Rendered(Mod, Bucket, course_name).err)
    /\ UNCHANGED <<changes, course_name, map, mi, messages, defaults, added, call>>

\* return messages
Return ==
    /\ pc = "loop"
    /\ pc' = "returned"
    /\ result' = Ok(messages)
    /\ UNCHANGED <<changes, course_name, map, mi, messages, defaults, added, call>>

\* the next call of create_full_moodle_diff_messages: only the module's state stays
Invoke ==
    /\ pc \in {"returned", "raised"}
    /\ pc' = "loop"
    /\ changes' = <<>>
    /\ course_name' = <<>>
    /\ map' = NoAggregator
    /\ mi' = 0
    /\ messages' = <<>>
    /\ result' = Pending
    /\ UNCHANGED <<defaults, added, call>>

Next ==
    \/ NextCourse
    \/ AddFile
    \/ SkipEmpty
    \/ RenderBucket
    \/ RaiseFromBucket
    \/ Return
    \/ Invoke

Spec == Init /\ [][Next]_vars

----------------------------------------------------------------------------
(* Properties of FileAggregatorByMod, checked under SpecAgg *)

Supplied == call.args[1]
KeySet == Range(Supplied) \cup {"misc"}
BucketOf(f) == IF f.module_modname \in KeySet THEN f.module_modname ELSE "misc"

RECURSIVE Count(_, _)
Count(s, x) == IF s = <<>> THEN 0 ELSE (IF Head(s) = x THEN 1 ELSE 0) + Count(Tail(s), x)

\* C3: after any sequence of add calls, for any supplied category list, the keys
\* of the bucket map are those of the list plus misc, each present once even when
\* its bucket is empty; every added file is in the bucket of its module_modname
\* (compared as it is) or in misc when no key equals it, and in no other; a bucket
\* holds its files in the order they were added.
C3_Buckets ==
    /\ DOMAIN map.vals = KeySet
    /\ Range(map.keys) = KeySet
    /\ \A i, j \in 1..Len(map.keys) : map.keys[i] = map.keys[j] => i = j
    /\ \A k \in KeySet :
         map.vals[k] = SelectSeq(added, LAMBDA f : BucketOf(f) = k)
    /\ \A f \in Range(added) :
         \A k \in KeySet : Count(map.vals[k], f) = (IF k = BucketOf(f) THEN Count(added, f) ELSE 0)

C3_Witness ==
    /\ Supplied = <<"misc", "forum">>
    /\ Len(added) = 3
    /\ added[1].module_modname = "Assign"
    /\ added[2].module_modname = "forum"
    /\ added[3].module_modname = "misc"
    /\ added[1] # added[3]
    /\ Len(map.vals["misc"]) = 2 /\ Len(map.vals["forum"]) = 1
    /\ map.keys = <<"misc", "forum">>

----------------------------------------------------------------------------
(* Properties of the formatting functions, checked under SpecFn *)

EndsWith(s, t) == Len(s) >= Len(t) /\ SubSeq(s, Len(s) - Len(t) + 1, Len(s)) = t

RECURSIVE JoinLines(_)
JoinLines(ls) ==
    IF ls = <<>> THEN <<>>
    ELSE IF Len(ls) = 1 THEN ls[1]
    ELSE ls[1] \o <<"\n">> \o JoinLines(Tail(ls))

Lines(text) == split(text, "\n", Len(text))

\* the change status of a file by its flags <<modified, deleted, moved>>
StatusByFlags(mo, de, mv) ==
    CASE mo /\ de /\ mv          -> "modified"
      [] mo /\ de /\ ~mv         -> "modified"
      [] mo /\ ~de /\ mv         -> "modified"
      [] mo /\ ~de /\ ~mv        -> "modified"
      [] ~mo /\ de /\ mv         -> "deleted"
      [] ~mo /\ de /\ ~mv        -> "deleted"
      [] ~mo /\ ~de /\ mv        -> "moved"
      [] ~mo /\ ~de /\ ~mv       -> "new"

StatusOf(f) == StatusByFlags(f.modified, f.deleted, f.moved)
StatusNames == {"modified", "deleted", "moved", "new"}

CourseLine(n) == <<EMOJI_BLUE_BOOK, " ">> \o n

PlainBullet(f) == <<BULLET, " ">> \o f.content_filename
StatusBullet(f) ==
    PlainBullet(f)
    \o (IF StatusOf(f) = "new" THEN <<>> ELSE <<" ", "(", StatusOf(f), ")">>)

\* the body of a digest of plain bullets or of bullets with the status, end trimmed
DigestBody(fs, n, with_status) ==
    rstrip(JoinLines(<<CourseLine(n)>>
                     \o [i \in 1..Len(fs) |->
                           IF with_status THEN StatusBullet(fs[i]) ELSE PlainBullet(fs[i])]))

ResourceCall == call.fn = "make_resource_combined_message" /\ call.args[1] # <<>>

ResourceTitle ==
    call.ret.title = <<EMOJI_BOOKS, " ">> \o str(Len(call.args[1])) \o <<" ", "file", " ", "updates">>

\* C4 as stated: a resource or folder digest is titled "{books} {count} file
\* updates" and its body is the course-name line followed by one bullet per file
\* that is exactly "{bullet} {filename}", whatever the flags of the files.
C4_Original ==
    ResourceCall =>
        /\ ResourceTitle
        /\ call.ret.text = DigestBody(call.args[1], call.args[2], FALSE)

\* C4 amended: a resource or folder digest is titled "{books} {count} file
\* updates" and its body is the course-name line followed by one bullet per file,
\* "{bullet} {filename}" with " ({status})" appended when the status of the file
\* is not new and never a content type, the end of the body trimmed.
C4_ResourceDigest ==
    ResourceCall =>
        /\ ResourceTitle
        /\ call.ret.text = DigestBody(call.args[1], call.args[2], TRUE)
        /\ call.ret.source_url = None

C4_Witness ==
    /\ ResourceCall
    /\ Len(call.args[1]) = 2
    /\ call.args[1][1].module_modname = "folder"
    /\ call.args[1][1].deleted /\ ~call.args[1][1].modified
    /\ StatusOf(call.args[1][2]) = "new"

StatusCall ==
    /\ call.fn \in {"make_assign_combined_message", "make_generic_combined_message"}
    /\ call.args[1] # <<>>

\* C5: the change status of a file is the first that applies of modified, deleted,
\* moved, else new; in an assign or misc digest the bullet of a file ends with
\* " ({status})" exactly when that status is not new, and the bullet of a file with
\* the three flags false carries no status annotation.
C5_StatusAnnotation ==
    StatusCall =>
        LET fs == call.args[1]
            ls == Lines(call.ret.text)
        IN  /\ Len(ls) = Len(fs) + 1
            /\ \A i \in 1..Len(fs) :
                 /\ \A st \in StatusNames :
                      EndsWith(ls[i + 1], <<" ", "(", st, ")">>)
                         <=> (st = StatusOf(fs[i]) /\ st # "new")
                 /\ (~fs[i].modified /\ ~fs[i].deleted /\ ~fs[i].moved) =>
                      \A j \in 1..Len(ls[i + 1]) : ls[i + 1][j] \notin StatusNames

C5_Witness ==
    /\ StatusCall
    /\ Len(call.args[1]) = 2
    /\ call.args[1][1].modified /\ call.args[1][1].deleted /\ call.args[1][1].moved
    /\ ~call.args[1][2].modified /\ ~call.args[1][2].deleted /\ ~call.args[1][2].moved

\* a date token YYYY.MM.DD of a day of the calendar, a time token HH_MM
IsDigits(s) == \A i \in 1..Len(s) : s[i] \in DigitSet
ValidDateToken(d) ==
    /\ Len(d) = 10 /\ d[5] = "." /\ d[8] = "."
    /\ IsDigits(SubSeq(d, 1, 4)) /\ IsDigits(SubSeq(d, 6, 7)) /\ IsDigits(SubSeq(d, 9, 10))
    /\ int(SubSeq(d, 1, 4)) >= 1
    /\ int(SubSeq(d, 6, 7)) \in 1..12
    /\ int(SubSeq(d, 9, 10)) \in 1..DaysInMonth(int(SubSeq(d, 1, 4)), int(SubSeq(d, 6, 7)))
ValidTimeToken(t) ==
    /\ Len(t) = 5 /\ t[3] = "_"
    /\ IsDigits(SubSeq(t, 1, 2)) /\ IsDigits(SubSeq(t, 4, 5))
    /\ int(SubSeq(t, 1, 2)) \in 0..23
    /\ int(SubSeq(t, 4, 5)) \in 0..59

TimeCall ==
    /\ call.fn = "iso_to_time_dmy"
    /\ ValidDateToken(call.args[1])
    /\ ValidTimeToken(call.args[2])

\* the hour of the 12-hour clock, two digits
Hour12(h) ==
    IF h = 0 \/ h = 12 THEN <<"1", "2">>
    ELSE IF h < 12 THEN Pad(h, 2)
    ELSE Pad(h - 12, 2)

\* C6: for a valid date token YYYY.MM.DD (years 0001..9999) and time token HH_MM,
\* iso_to_time_dmy returns "hh:mm AM/PM dd.mm.yy": minute, day and month as given,
\* the last two digits of the year, AM for the hours 0..11 and PM for 12..23, the
\* hour of the 12-hour clock zero-padded, 12 for the hours 0 and 12.
C6_TimeFormat ==
    TimeCall =>
        LET d == call.args[1]
            t == call.args[2]
            h == int(SubSeq(t, 1, 2))
        IN  /\ call.ret.err = "none"
            /\ call.ret.val =
                 Hour12(h) \o <<":">> \o SubSeq(t, 4, 5)
                 \o <<" ", IF h <= 11 THEN "AM" ELSE "PM", " ">>
                 \o SubSeq(d, 9, 10) \o <<".">> \o SubSeq(d, 6, 7) \o <<".">> \o SubSeq(d, 3, 4)

\* the example of the docstring: ("2024.09.23", "14_35") gives "02:35 PM 23.09.24";
\* here with the 30th, a day of the input set
C6_Witness ==
    /\ call.fn = "iso_to_time_dmy"
    /\ call.args = << <<"2", "0", "2", "4", ".", "0", "9", ".", "3", "0">>,
                      <<"1", "4", "_", "3", "5">> >>
    /\ call.ret = Ok(<<"0", "2", ":", "3", "5", " ", "PM", " ",
                       "3", "0", ".", "0", "9", ".", "2", "4">>)

ForumCall == call.fn = "make_forum_message"

ForumRest ==
    call.ret.text = CourseLine(call.args[2])
    /\ call.ret.source_url = call.args[1].content_fileurl

----------------------------------------------------------------------------
(* Properties of create_full_moodle_diff_messages, checked under Spec *)

CategoryOrder == <<"assign", "calendar", "folder", "forum", "resource", "quiz", "misc">>
Recognized == {"assign", "calendar", "folder", "forum", "resource", "quiz"}
CategoryOf(f) == IF f.module_modname \in Recognized THEN f.module_modname ELSE "misc"
FilesOf(course, k) == SelectSeq(course.files, LAMBDA f : CategoryOf(f) = k)

\* the messages of one category of a course on which nothing raises
CategoryMessages(k, fs, n) ==
    IF fs = <<>> THEN <<>>
    ELSE CASE k = "assign"   -> <<make_assign_combined_message(fs, n)>>
           [] k = "calendar" -> [i \in 1..Len(fs) |-> make_calendar_message(fs[i], n).val]
           [] k = "folder"   -> <<make_resource_combined_message(fs, n)>>
           [] k = "forum"    -> [i \in 1..Len(fs) |-> make_forum_message(fs[i], n)]
           [] k = "resource" -> <<make_resource_combined_message(fs, n)>>
           [] k = "quiz"     -> [i \in 1..Len(fs) |-> make_quiz_message(fs[i], n)]
           [] k = "misc"     -> <<make_misc_combined_message(fs, n)>>

InOrder(course) ==
    Concat([j \in 1..Len(CategoryOrder) |->
              CategoryMessages(CategoryOrder[j], FilesOf(course, CategoryOrder[j]), NameOf(course))])

\* C1: a call that returns lists the messages course by course in input order,
\* within a course in the order assign, calendar, folder, forum, resource, quiz,
\* misc with nothing for an empty category, and within calendar, forum and quiz in
\* the order of the files in course.files.
C1_MessageOrder ==
    pc = "returned" =>
        result = Ok(Concat([i \in 1..Len(changes) |-> InOrder(changes[i])]))

C1_Witness ==
    /\ pc = "returned"
    /\ Len(changes) = 1
    /\ Len(changes[1].files) = 2
    /\ changes[1].files[1].module_modname = "label"
    /\ changes[1].files[2].module_modname = "assign"
    /\ Len(result.val) = 2
    /\ result.val[1].title[1] = EMOJI_MEMO
    /\ result.val[2].title = <<EMOJI_DIVIDERS, " ", "1", " ", "misc", " ", "updates">>

\* the files a message stands for: its bullet lines, or one when it has none
BulletCount(m) == Cardinality({i \in 1..Len(Lines(m.text)) : Lines(m.text)[i][1] = BULLET})
IsDigest(m) == BulletCount(m) > 0
TitleCount(m) == int(split(m.title, " ", Len(m.title))[2])
FileCount(m) == IF IsDigest(m) THEN BulletCount(m) ELSE 1

RECURSIVE Sum(_)
Sum(ns) == IF ns = <<>> THEN 0 ELSE Head(ns) + Sum(Tail(ns))

\* C2: no file is dropped or counted twice. Each time a course is done, and at
\* the return, the file counts of the messages so far (the count in the title of a
\* digest, equal to its number of bullet lines; one for each calendar, forum or quiz
\* message) add up to the number of files of the courses so far; holding after
\* every course, it holds of the messages of each course.
C2_NoFileLost ==
    pc \in {"loop", "returned"} =>
        /\ \A i \in 1..Len(messages) :
             IsDigest(messages[i]) => TitleCount(messages[i]) = BulletCount(messages[i])
        /\ Sum([i \in 1..Len(messages) |-> FileCount(messages[i])])
             = Sum([i \in 1..Len(changes) |-> Len(changes[i].files)])

C2_Witness ==
    /\ pc = "loop"
    /\ Len(changes) = 1
    /\ Len(changes[1].files) = 2
    /\ changes[1].files[1].module_modname = "quiz"
    /\ changes[1].files[2].module_modname = "label"
    /\ Len(messages) = 2
    /\ IsDigest(messages[2]) /\ ~IsDigest(messages[1])

\* the calendar files read so far
CalendarFiles ==
    {f \in UNION {Range(changes[i].files) : i \in 1..Len(changes)} : f.module_modname = "calendar"}

Tokens(f) == split(f.content_filename, " ", 2)

\* the shapes YYYY.MM.DD and HH_MM
DateShape(d) ==
    /\ Len(d) = 10 /\ d[5] = "." /\ d[8] = "."
    /\ IsDigits(SubSeq(d, 1, 4)) /\ IsDigits(SubSeq(d, 6, 7)) /\ IsDigits(SubSeq(d, 9, 10))
TimeShape(t) ==
    /\ Len(t) = 5 /\ t[3] = "_"
    /\ IsDigits(SubSeq(t, 1, 2)) /\ IsDigits(SubSeq(t, 4, 5))
WellShaped(f) ==
    /\ Len(Tokens(f)) = 3
    /\ DateShape(Tokens(f)[1])
    /\ TimeShape(Tokens(f)[2])

\* what the parser takes: year of four digits, the other fields of one or two,
\* "_" or ":" between hour and minute, every number in its range
Field(x, lo, hi) == Len(x) \in 1..2 /\ IsDigits(x) /\ int(x) \in lo..hi
DateTaken(d) ==
    LET p == split(d, ".", Len(d)) IN
    /\ Len(p) = 3
    /\ Len(p[1]) = 4 /\ IsDigits(p[1]) /\ int(p[1]) >= 1
    /\ Field(p[2], 1, 12)
    /\ Field(p[3], 1, 31)
    /\ int(p[3]) <= DaysInMonth(int(p[1]), int(p[2]))
TimeTaken(t) ==
    \E i \in 1..Len(t) :
        /\ t[i] \in {"_", ":"}
        /\ Field(SubSeq(t, 1, i - 1), 0, 23)
        /\ Field(SubSeq(t, i + 1, Len(t)), 0, 59)
Taken(f) ==
    /\ Len(Tokens(f)) = 3
    /\ DateTaken(Tokens(f)[1])
    /\ TimeTaken(Tokens(f)[2])

NoListReturned == pc = "raised" => result.err = "ValueError" /\ result.val = <<>>

\* C7 as stated: a calendar file whose name has fewer than three tokens, or a date
\* or time token that is not of the shape YYYY.MM.DD or HH_MM, ends the call in an
\* error: no course with such a file is ever completed and no list is returned.
C7_Original ==
    /\ pc \in {"loop", "returned"} => \A f \in CalendarFiles : WellShaped(f)
    /\ NoListReturned

\* C7 amended: a calendar file whose name has fewer than three tokens, or a date
\* or time token that strptime("%Y.%m.%d %H:%M") does not take once "_" is ":",
\* ends the call in a ValueError that reaches the caller: no course with such a
\* file is ever completed, no list is returned and no message stands in for the
\* file. One-digit month, day, hour and minute fields and ":" for "_" are taken.
C7_CalendarErrors ==
    /\ pc \in {"loop", "returned"} => \A f \in CalendarFiles : Taken(f)
    /\ NoListReturned
    /\ pc = "raised" => \E f \in CalendarFiles : ~Taken(f)
    /\ pc = "returned" => Len(result.val) >= Cardinality(CalendarFiles)

C7_Witness ==
    /\ pc = "raised"
    /\ result = Raise("ValueError")
    /\ Len(changes) = 2
    /\ Len(changes[1].files) = 1 /\ Taken(changes[1].files[1])
    /\ ~WellShaped(changes[1].files[1])
    /\ Len(changes[2].files) = 1
    /\ changes[2].files[1].content_filename = <<"onlyonetoken">>
    /\ Len(messages) = 1

\* a step of the loop over the buckets that meets a non-empty bucket
DispatchStep == Dispatching /\ Bucket # <<>> /\ pc' # "add"

\* C8 as stated: in every run, for every input, each non-empty bucket yields at
\* least one message and the branch for a key with no rule is never reached.
C8_Original ==
    [][ DispatchStep =>
          (Len(messages') > Len(messages) /\ result'.err # "AssertionError") ]_vars

\* C8 amended: the branch for a key with no rule is never reached, and each
\* non-empty bucket is handled by a rule: it yields at least one message, unless
\* it is the calendar bucket and one of its files raises, which ends the run with
\* that error; no non-empty bucket is skipped.
C8_EveryBucketRendered ==
    [][ DispatchStep =>
          /\ result'.err # "AssertionError"
          /\ \/ Len(messages') > Len(messages) /\ pc' \in {"items", "loop"}
             \/ /\ Mod = "calendar" /\ pc' = "raised" /\ result'.err = "ValueError"
                /\ \E i \in 1..Len(Bucket) : ~Taken(Bucket[i]) ]_vars

C8_Witness ==
    /\ pc = "loop"
    /\ Len(changes) = 1
    /\ Len(changes[1].files) = 2
    /\ changes[1].files[1].module_modname = "label"
    /\ changes[1].files[2].module_modname = "quiz"
    /\ Len(messages) = 2
    /\ messages[2].title[1] = EMOJI_DIVIDERS

\* the messages of a course, by an aggregator of its own
RECURSIVE Aggregated(_, _)
Aggregated(m, fs) == IF fs = <<>> THEN m ELSE Aggregated(add(m, Head(fs)), Tail(fs))

\* the messages of a course that is the only one
Whole(course) ==
    LET m == Aggregated(FileAggregatorByMod_init(DefaultCategories), course.files)
        n == NameOf(course)
    IN  Concat([j \in 1..Len(m.keys) |->
                  IF m.vals[m.keys[j]] = <<>> THEN <<>>
                  ELSE Rendered(m.keys[j], m.vals[m.keys[j]], n).val])

\* C9: nothing is kept from one course to the next or from one call to the next.
\* A course starts with every bucket empty and the default category list is never
\* changed; whenever a course is done, and at the return, the messages are those
\* of the courses one after the other, each as if it were the only one, so the
\* output for A followed by B is the output for A followed by the output for B,
\* and the output of a call depends on its input alone.
C9_NoSharedState ==
    /\ defaults = DefaultCategories
    /\ (pc = "add" /\ changes[Len(changes)].files = <<>>) =>
         \A k \in DOMAIN map.vals : map.vals[k] = <<>>
    /\ pc = "loop" =>
         messages = Concat([i \in 1..Len(changes) |-> Whole(changes[i])])
    /\ pc = "returned" =>
         result = Ok(Concat([i \in 1..Len(changes) |-> Whole(changes[i])]))

C9_Witness ==
    /\ pc = "returned"
    /\ Len(changes) = 2
    /\ changes[1].files = changes[2].files
    /\ Len(changes[1].files) = 1
    /\ changes[1].files[1].module_modname = "forum"
    /\ Len(result.val) = 2
    /\ result.val[1].title = result.val[2].title
    /\ result.val[1].text = CourseLine(<<"Algebra", " ", "I">>)
    /\ result.val[2].text = CourseLine(<<"Physics">>)

====
